---------------------------- MODULE Spec2Model ----------------------------
(***************************************************************************)
(* Model of src/src/multiframe.ts: the Multiframe progressive supersampler *)
(* (sample grid, camera jitter hooks, texture lifecycle, prepareTexture).  *)
(*                                                                         *)
(* Numbers.  Sample coordinates are kept as integer numerators over the    *)
(* common denominator N*RandRes; projection-matrix entries are integers in *)
(* units of 1/(N*RandRes*DimLcm), so that sample.x / device.width is an    *)
(* exact integer number of units for every modelled width.                 *)
(*                                                                         *)
(* Pixels.  A texture's content is a sequence of layers, oldest first.  A  *)
(* layer [src, pw, den] is one full-screen draw of pow(src, pw) that was   *)
(* mixed over what was there with weight 1/den (den = 1: it replaced it).  *)
(* The empty sequence is a texture nothing was ever drawn into.            *)
(***************************************************************************)
EXTENDS Integers, Sequences, FiniteSets

\* ------------------------------------------------------------- bounds
MaxN == 2
RandRes == 2
MaxDim == 2
MaxColour == 1
MaxCreates == 2
MatMax == 1
ExtraLayers == 1
MaxToggles == 1
MaxThrows == 1

\* ---------------------------------------------------------- constants
NULL == 0

\* const gamma = 2.2, as the fraction 22/10
gamma == <<22, 10>>
onePower == <<1, 1>>
\* 1.0 / gamma
invGamma == <<gamma[2], gamma[1]>>

\* the sampling bias of every sample but the first
negBias == -5

GridSizes == 1..MaxN
Rands == 0..(RandRes - 1)
Dims == 1..MaxDim
Colours == 1..MaxColour
MatVals == 0..MatMax

RECURSIVE Lcm(_, _)
Lcm(n, acc) == IF n <= 1 THEN acc
               ELSE Lcm(n - 1, CHOOSE m \in acc..(acc * n) :
                                 /\ m % n = 0 /\ m % acc = 0
                                 /\ \A k \in acc..(m - 1) : ~(k % n = 0 /\ k % acc = 0))
DimLcm == Lcm(MaxDim, 1)

\* ------------------------------------------------ the sample sequence
\* one grid cell's offset: ((x + r) / numSamples * 2 - 1), times numSamples*RandRes
Coord(c, r, numSamples) == 2 * (c * RandRes + r) - numSamples * RandRes

\* the nested x / y loops push cell (x, y) at position x * numSamples + y + 1
GridSamples(numSamples, rnd) ==
    [i \in 1..(numSamples * numSamples) |->
        [x |-> Coord((i - 1) \div numSamples, rnd[i][1], numSamples),
         y |-> Coord((i - 1) % numSamples, rnd[i][2], numSamples)]]

\* Vec2.length() compared through its square (sqrt is monotone)
Length2(v) == v.x * v.x + v.y * v.y

\* the comparator with its two results swapped: farthest sample first
CompareFarthestFirst(a, b) == IF Length2(a) < Length2(b) THEN 1
                              ELSE IF Length2(b) < Length2(a) THEN -1 ELSE 0

\* the comparator of samples.sort: -1, 1 or 0
Compare(a, b) == IF Length2(a) < Length2(b) THEN -1
                 ELSE IF Length2(b) < Length2(a) THEN 1 ELSE 0

\* stable insertion of v into the sorted sequence s
RECURSIVE InsertSorted(_, _)
InsertSorted(s, v) ==
    IF s = <<>> THEN <<v>>
    ELSE IF Compare(v, s[Len(s)]) < 0
         THEN Append(InsertSorted(SubSeq(s, 1, Len(s) - 1), v), s[Len(s)])
         ELSE Append(s, v)

\* Array.prototype.sort with Compare: a stable sort
RECURSIVE SortSamples(_)
SortSamples(s) ==
    IF s = <<>> THEN <<>>
    ELSE InsertSorted(SortSamples(SubSeq(s, 1, Len(s) - 1)), s[Len(s)])


\* ------------------------------------------------------------- state
VARIABLES
    numSamples,         \* the constructor's numSamples (the grid size N)
    samples,            \* this.samples
    sampleId,           \* this.sampleId
    firstTexture,       \* this.firstTexture (the output texture), or NULL
    firstRenderTarget,  \* this.firstRenderTarget, or NULL
    accumTexture,       \* this.accumTexture, or NULL
    accumRenderTarget,  \* this.accumRenderTarget, or NULL
    res,                \* every texture / render target ever allocated, by id
    width,              \* device.width
    height,             \* device.height
    renderTarget,       \* camera.renderTarget: [exists, colorBuffer]
    pmat,               \* camera.projectionMatrix.data, entries 8, 9, 12, 13
    store,              \* the hooks' closure variable store
    before,             \* the matrix as the latest onPreRender found it (history)
    phase,              \* "idle", "pre" (onPreRender ran), "rendered"
    bias,               \* the value of the globalTextureBias uniform
    blend,              \* the device's four blend factors
    creates,            \* how many times create() was entered
    toggles,            \* how many times the host changed camera.renderTarget
    throws,             \* how many allocations threw
    draws,              \* the drawQuadWithShader calls of the last prepareTexture
    last                \* the last operation (history, read by no operation)

refs == <<firstTexture, firstRenderTarget, accumTexture, accumRenderTarget>>
camera == <<renderTarget, pmat, store, before, phase, bias>>
device == <<width, height, blend>>
counters == <<creates, toggles, throws>>
vars == <<numSamples, samples, sampleId, refs, res, device, camera, counters,
          draws, last>>

\* this.samples.length
sampleCnt == Len(samples)

\* the four resource fields and the allocation table, as one value
Fields == [firstTexture |-> firstTexture, firstRenderTarget |-> firstRenderTarget,
           accumTexture |-> accumTexture, accumRenderTarget |-> accumRenderTarget,
           res |-> res]

\* blend factors the scene render can leave on the device: those of an opaque
\* and of an alpha-blended material
OpaqueBlend == [src |-> "ONE", dst |-> "ZERO", srcAlpha |-> "ONE", dstAlpha |-> "ZERO"]
AlphaBlend == [src |-> "SRC_ALPHA", dst |-> "ONE_MINUS_SRC_ALPHA",
               srcAlpha |-> "ONE", dstAlpha |-> "ONE_MINUS_SRC_ALPHA"]
SceneBlends == {OpaqueBlend, AlphaBlend}

\* gl.blendFuncSeparate(gl.CONSTANT_ALPHA, gl.ONE_MINUS_CONSTANT_ALPHA, gl.ONE, gl.ZERO)
ConstantAlphaBlend == [src |-> "CONSTANT_ALPHA", dst |-> "ONE_MINUS_CONSTANT_ALPHA",
                       srcAlpha |-> "ONE", dstAlpha |-> "ZERO"]

\* a camera render target nothing was rendered into yet, and no render target
BlankScene == [colour |-> 0, bias |-> 0]
NoRenderTarget == [exists |-> FALSE, colorBuffer |-> BlankScene]
NewRenderTarget == [exists |-> TRUE, colorBuffer |-> BlankScene]

\* ------------------------------------------------------- construction
\* the Math.random() draws of one construction, a pair per grid cell, each
\* draw r standing for r / RandRes
SomeDraws(n) == [i \in 1..(n * n) |-> <<i % RandRes, (i \div RandRes) % RandRes>>]

\* the state after new Multiframe(device, camera, numSamples), but for the
\* samples and the camera's matrix and render target
Fresh ==
    /\ numSamples \in GridSizes
    /\ sampleId = 0
    /\ firstTexture = NULL
    /\ firstRenderTarget = NULL
    /\ accumTexture = NULL
    /\ accumRenderTarget = NULL
    /\ res = <<>>
    /\ width \in Dims
    /\ height \in Dims
    /\ store = [x |-> 0, y |-> 0]
    /\ phase = "idle"
    /\ bias = 0
    /\ creates = 0
    /\ toggles = 0
    /\ throws = 0
    /\ draws = <<>>
    /\ last = [op |-> "other", ret |-> "none", sampleId |-> 0, after |-> "other",
               stale |-> FALSE]

\* the constructor's sample loops and sort, for the Math.random() draws rnd
SamplesFor(n, rnd) == SortSamples(GridSamples(n, rnd))

\* a construction with one fixed run of Math.random(), on a device whose last
\* material was opaque
Constructed ==
    /\ Fresh
    /\ samples = SamplesFor(numSamples, SomeDraws(numSamples))
    /\ blend = OpaqueBlend

\* a symmetric projection: entries 8, 9, 12 and 13 are all zero
SymmetricProjection == [d8 |-> 0, d9 |-> 0, d12 |-> 0, d13 |-> 0]

Init ==
    /\ Constructed
    /\ renderTarget \in {NoRenderTarget, NewRenderTarget}
    /\ pmat = SymmetricProjection
    /\ before = pmat

\* any projection matrix, on a camera that renders to the back buffer
InitJitter ==
    /\ Constructed
    /\ renderTarget = NoRenderTarget
    /\ pmat \in [d8 : MatVals, d9 : MatVals, d12 : MatVals, d13 : MatVals]
    /\ before = pmat


\* ----------------------------------------------------------- resources
\* new pc.Texture(device, {width, height, ...}) as the next entry of res
NewTexture(w, h) == [kind |-> "texture", width |-> w, height |-> h,
                     colorBuffer |-> NULL, content |-> <<>>, destroyed |-> 0]

\* new pc.RenderTarget({colorBuffer, depth: false})
NewTarget(tex) == [kind |-> "target", width |-> 0, height |-> 0,
                   colorBuffer |-> tex, content |-> <<>>, destroyed |-> 0]

\* resource.destroy(): its storage is gone, and it is counted as destroyed
Destroyed(r) == [r EXCEPT !.destroyed = @ + 1, !.content = <<>>,
                          !.width = 0, !.height = 0, !.colorBuffer = NULL]

\* if (this.f) { this.f.destroy(); this.f = null; }
Release(F, f) ==
    IF F[f] = NULL THEN F
    ELSE [F EXCEPT !.res[F[f]] = Destroyed(@), ![f] = NULL]

\* destroy() without its accumRenderTarget block
DestroyFieldsSkipsTarget(F) ==
    Release(Release(Release(F, "firstTexture"), "firstRenderTarget"), "accumTexture")

\* destroy(), on the fields F
DestroyFields(F) ==
    Release(Release(Release(Release(F, "firstTexture"), "firstRenderTarget"),
                    "accumRenderTarget"), "accumTexture")

\* create(), on the fields F, up to and including its n-th allocation (n = 4:
\* all of it; n < 4: allocation n + 1 threw)
CreateFields(F, w, h, n) ==
    LET F1 == IF n < 1 THEN F
              ELSE [F EXCEPT !.res = Append(@, NewTexture(w, h)),
                             !.firstTexture = Len(F.res) + 1]
        F2 == IF n < 2 THEN F1
              ELSE [F1 EXCEPT !.res = Append(@, NewTarget(F1.firstTexture)),
                              !.firstRenderTarget = Len(F1.res) + 1]
        F3 == IF n < 3 THEN F2
              ELSE [F2 EXCEPT !.res = Append(@, NewTexture(w, h)),
                              !.accumTexture = Len(F2.res) + 1]
        F4 == IF n < 4 THEN F3
              ELSE [F3 EXCEPT !.res = Append(@, NewTarget(F3.accumTexture)),
                              !.accumRenderTarget = Len(F3.res) + 1]
    IN  F4

\* the size test comparing the widths only
StaleWidthOnly(F) == /\ F.accumTexture # NULL
                     /\ F.res[F.accumTexture].width # width

\* the first statement of prepareTexture: a size mismatch releases everything
Stale(F) == /\ F.accumTexture # NULL
            /\ \/ F.res[F.accumTexture].width # width
               \/ F.res[F.accumTexture].height # height

AfterSizeCheck(F) == IF Stale(F) THEN DestroyFields(F) ELSE F

\* -------------------------------------------------------------- draws
\* what the shader writes for one source: pow(t.xyz * multiplier, power)
SceneLayer(scene, pw, den) ==
    [kind |-> "scene", colour |-> scene.colour, of |-> <<>>, pw |-> pw, den |-> den]
TextureLayer(content, pw, den) ==
    [kind |-> "texture", colour |-> 0, of |-> content, pw |-> pw, den |-> den]

\* the content of texture id in F (NULL: nothing)
ContentOf(F, id) == IF id = NULL THEN <<>> ELSE F.res[id].content

\* pc.drawQuadWithShader(device, target, shader, ..., useBlend) with the blend
\* factors f and blend colour alpha 1/a in effect: the layer replaces the
\* target's colour buffer, or is mixed over it when blending with constant
\* alpha; target NULL is the back buffer
DrawQuad(F, target, layer, useBlend, f, a) ==
    IF target = NULL THEN F
    ELSE LET tex == F.res[target].colorBuffer
         IN  IF useBlend /\ f.src = "CONSTANT_ALPHA"
             THEN [F EXCEPT !.res[tex].content =
                                Append(@, [layer EXCEPT !.den = a])]
             ELSE [F EXCEPT !.res[tex].content = <<[layer EXCEPT !.den = 1]>>]

\* no blend colour is in effect for the draw
NoAlpha == 0

\* one entry of draws
DrawRecord(to, target, from, source, pw, useBlend, f, a) ==
    [to |-> to, target |-> target, from |-> from, source |-> source, power |-> pw,
     useBlend |-> useBlend, factors |-> f,
     alpha |-> IF useBlend /\ f.src = "CONSTANT_ALPHA" THEN a ELSE 0]

\* ------------------------------------------------------ prepareTexture
\* whether prepareTexture enters its accumulation block
Accumulates == renderTarget.exists /\ sampleId < sampleCnt

\* the sampleId === 0 block with power left at 1.0 for the accumulation draw
PrimeDrawsUnencoded(F) ==
    LET src == renderTarget.colorBuffer
        F1  == DrawQuad(F, F.accumRenderTarget, SceneLayer(src, onePower, 1),
                        TRUE, blend, NoAlpha)
        F2  == DrawQuad(F1, F1.firstRenderTarget, SceneLayer(src, onePower, 1),
                        TRUE, blend, NoAlpha)
    IN  [F |-> F2,
         draws |-> <<DrawRecord("accum", F.accumRenderTarget, "camera", NULL, onePower,
                                TRUE, blend, NoAlpha),
                     DrawRecord("first", F.firstRenderTarget, "camera", NULL, onePower,
                                TRUE, blend, NoAlpha)>>,
         blend |-> blend]

\* sampleId === 0: the grab pass is stored in both textures
PrimeDraws(F) ==
    LET src == renderTarget.colorBuffer
        F1  == DrawQuad(F, F.accumRenderTarget, SceneLayer(src, gamma, 1),
                        TRUE, blend, NoAlpha)
        F2  == DrawQuad(F1, F1.firstRenderTarget, SceneLayer(src, onePower, 1),
                        TRUE, blend, NoAlpha)
    IN  [F |-> F2,
         draws |-> <<DrawRecord("accum", F.accumRenderTarget, "camera", NULL, gamma,
                                TRUE, blend, NoAlpha),
                     DrawRecord("first", F.firstRenderTarget, "camera", NULL, onePower,
                                TRUE, blend, NoAlpha)>>,
         blend |-> blend]

\* blend colour alpha 1.0 / this.sampleId
BlendDenStale(sid) == sid

\* the blend colour alpha of the blend step, 1.0 / (this.sampleId + 1), as its
\* denominator
BlendDen(sid) == sid + 1

\* a resolve tested against sampleCnt
IsFinalLate(sid) == sid = sampleCnt

\* "resolve final frame": this.sampleId === (sampleCnt - 1)
IsFinal(sid) == sid = sampleCnt - 1

\* a restore that leaves the installed factors in place
RestoreSkipped(saved, installed) == installed

\* "restore states": device.setBlendFunctionSeparate(blendSrc, blendDst,
\* blendSrcAlpha, blendDstAlpha) over the installed factors
Restore(saved, installed) == saved

\* sampleId > 0: the grab pass is blended into the accumulation texture, and
\* the last sample resolves it into the first texture
BlendDraws(F) ==
    LET src   == renderTarget.colorBuffer
        saved == Restore(blend, ConstantAlphaBlend)
        a     == BlendDen(sampleId)
        F1    == DrawQuad(F, F.accumRenderTarget, SceneLayer(src, gamma, 1),
                          TRUE, ConstantAlphaBlend, a)
        d1    == DrawRecord("accum", F.accumRenderTarget, "camera", NULL, gamma,
                            TRUE, ConstantAlphaBlend, a)
        final == IsFinal(sampleId)
        F2    == IF final
                 THEN DrawQuad(F1, F1.firstRenderTarget,
                               TextureLayer(ContentOf(F1, F1.accumTexture), invGamma, 1),
                               FALSE, saved, NoAlpha)
                 ELSE F1
        d2    == DrawRecord("first", F1.firstRenderTarget, "accum", F1.accumTexture,
                            invGamma, FALSE, saved, NoAlpha)
    IN  [F |-> F2,
         draws |-> IF final THEN <<d1, d2>> ELSE <<d1>>,
         blend |-> saved]

\* the accumulation block with its sampleId === 0 test dropped: every sample
\* takes the blend branch
AccumulationDrawsBlendsFirst(F) ==
    IF ~Accumulates
    THEN [F |-> F, draws |-> <<>>, blend |-> blend]
    ELSE BlendDraws(F)

\* the accumulation block of prepareTexture
AccumulationDraws(F) ==
    IF ~Accumulates
    THEN [F |-> F, draws |-> <<>>, blend |-> blend]
    ELSE IF sampleId = 0 THEN PrimeDraws(F) ELSE BlendDraws(F)

\* "replace backbuffer with multiframe buffer"
Composite(R) ==
    [R EXCEPT !.draws = Append(@, DrawRecord("screen", NULL, "first", R.F.firstTexture,
                                             onePower, FALSE, R.blend, NoAlpha))]

\* this.sampleId++ without its guard
NextSampleIdUnguarded == sampleId + 1

\* if (this.sampleId < sampleCnt) this.sampleId++
NextSampleId == IF sampleId < sampleCnt THEN sampleId + 1 ELSE sampleId

\* the operation that ran last: its name, how it ended, sampleId when it began,
\* the operation before it, and whether its size test found a mismatch
Ran(op, ret) == [op |-> op, ret |-> ret, sampleId |-> sampleId, after |-> last.op,
                 stale |-> Stale(Fields)]

\* any operation but prepareTexture: only its name is kept, and for moved
\* whether it came right after a scene render
Other == [op |-> "other", ret |-> "none", sampleId |-> 0, after |-> "other",
          stale |-> FALSE]
Rendered == [Other EXCEPT !.op = "rendered"]
Moved == [Other EXCEPT !.op = "moved",
                       !.after = IF last.op = "rendered" THEN "rendered" ELSE "other"]
Torn == [Other EXCEPT !.op = "destroy"]

\* prepareTexture() running to its return statement
prepareTexture ==
    /\ phase = "idle"
    /\ LET F0 == AfterSizeCheck(Fields)
           mk == F0.accumTexture = NULL
           F1 == IF mk THEN CreateFields(F0, width, height, 4) ELSE F0
           R  == Composite(AccumulationDraws(F1))
       IN  /\ mk => creates < MaxCreates
           /\ (Accumulates /\ sampleId > 0) =>
                  Len(ContentOf(F1, F1.accumTexture)) < sampleCnt + ExtraLayers
           /\ creates' = IF mk THEN creates + 1 ELSE creates
           /\ firstTexture' = R.F.firstTexture
           /\ firstRenderTarget' = R.F.firstRenderTarget
           /\ accumTexture' = R.F.accumTexture
           /\ accumRenderTarget' = R.F.accumRenderTarget
           /\ res' = R.F.res
           /\ blend' = R.blend
           /\ draws' = R.draws
    /\ sampleId' = NextSampleId
    /\ last' = Ran("prepareTexture", IF sampleId' < sampleCnt THEN "true" ELSE "false")
    /\ UNCHANGED <<numSamples, samples, width, height, camera, toggles, throws>>

\* prepareTexture() when allocation k of create() throws: the exception leaves
\* prepareTexture at once
prepareTextureThrows ==
    /\ phase = "idle"
    /\ AfterSizeCheck(Fields).accumTexture = NULL
    /\ creates < MaxCreates
    /\ \E k \in 1..4 :
          LET F == CreateFields(AfterSizeCheck(Fields), width, height, k - 1)
          IN  /\ firstTexture' = F.firstTexture
              /\ firstRenderTarget' = F.firstRenderTarget
              /\ accumTexture' = F.accumTexture
              /\ accumRenderTarget' = F.accumRenderTarget
              /\ res' = F.res
    /\ creates' = creates + 1
    /\ throws < MaxThrows
    /\ throws' = throws + 1
    /\ draws' = <<>>
    /\ last' = Ran("prepareTexture", "throws")
    /\ UNCHANGED <<numSamples, samples, sampleId, device, camera, toggles>>

\* ---------------------------------------------------- other operations
\* moved()
moved ==
    /\ phase = "idle"
    /\ sampleId' = 0
    /\ draws' = <<>>
    /\ last' = Moved
    /\ UNCHANGED <<numSamples, samples, refs, res, device, camera, counters>>

\* destroy(): called by the host, or by the handler of the device's 'destroy'
\* and 'devicelost' events
destroy ==
    /\ phase = "idle"
    /\ LET F == DestroyFields(Fields)
       IN  /\ firstTexture' = F.firstTexture
           /\ firstRenderTarget' = F.firstRenderTarget
           /\ accumTexture' = F.accumTexture
           /\ accumRenderTarget' = F.accumRenderTarget
           /\ res' = F.res
    /\ draws' = <<>>
    /\ last' = Torn
    /\ UNCHANGED <<numSamples, samples, sampleId, device, camera, counters>>

\* the jitter of one matrix entry: sample / device size, in matrix units
Jitter(coord, size) == coord * (DimLcm \div size)

\* camera.onPreRender with a sample to read
onPreRender ==
    /\ phase = "idle"
    /\ sampleId < sampleCnt
    /\ LET sample == samples[sampleId + 1]
       IN  /\ store' = [x |-> pmat.d12, y |-> pmat.d13]
           /\ before' = pmat
           /\ pmat' = [pmat EXCEPT !.d8 = @ + Jitter(sample.x, width),
                                   !.d9 = @ + Jitter(sample.y, height)]
    /\ bias' = IF sampleId = 0 THEN 0 ELSE negBias
    /\ phase' = "pre"
    /\ draws' = <<>>
    /\ last' = Other
    /\ UNCHANGED <<numSamples, samples, sampleId, refs, res, device, renderTarget,
                   counters>>

\* camera.onPreRender when samples[sampleId] is undefined: store.set runs, the
\* read of sample.x throws, and the render is abandoned
onPreRenderThrows ==
    /\ phase = "idle"
    /\ sampleId >= sampleCnt
    /\ store' = [x |-> pmat.d12, y |-> pmat.d13]
    /\ before' = pmat
    /\ draws' = <<>>
    /\ last' = Other
    /\ UNCHANGED <<numSamples, samples, sampleId, refs, res, device, renderTarget,
                   pmat, phase, bias, counters>>

\* the scene render between the two hooks: it fills the camera's render target
\* (if there is one), sampled with the bias the hook set
renderScene ==
    /\ phase = "pre"
    /\ phase' = "rendered"
    /\ \E c \in Colours :
          renderTarget' = IF renderTarget.exists
                          THEN [renderTarget EXCEPT !.colorBuffer =
                                                       [colour |-> c, bias |-> bias]]
                          ELSE renderTarget
    /\ last' = Other
    /\ UNCHANGED <<numSamples, samples, sampleId, refs, res, device,
                   pmat, store, before, bias, counters, draws>>

\* camera.onPostRender
onPostRender ==
    /\ phase = "rendered"
    /\ pmat' = [pmat EXCEPT !.d8 = store.x, !.d9 = store.y]
    /\ phase' = "idle"
    /\ last' = Rendered
    /\ UNCHANGED <<numSamples, samples, sampleId, refs, res, device, renderTarget,
                   store, before, bias, counters, draws>>

\* the host resizes the device
resize ==
    /\ phase = "idle"
    /\ \E w \in Dims, h \in Dims :
          /\ <<w, h>> # <<width, height>>
          /\ width' = w
          /\ height' = h
    /\ draws' = <<>>
    /\ last' = Other
    /\ UNCHANGED <<numSamples, samples, sampleId, refs, res, blend, camera, counters>>

\* the host takes the camera's render target away, or gives it back
setRenderTarget ==
    /\ phase = "idle"
    /\ toggles < MaxToggles
    /\ toggles' = toggles + 1
    /\ renderTarget' = [renderTarget EXCEPT !.exists = ~@]
    /\ draws' = <<>>
    /\ last' = Other
    /\ UNCHANGED <<numSamples, samples, sampleId, refs, res, device, pmat, store,
                   before, phase, bias, creates, throws>>

Next ==
    \/ prepareTexture
    \/ prepareTextureThrows
    \/ moved
    \/ destroy
    \/ onPreRender
    \/ onPreRenderThrows
    \/ renderScene
    \/ onPostRender
    \/ resize
    \/ setRenderTarget

Spec == Init /\ [][Next]_vars

\* the render hooks and the operations that decide which sample they read
NextJitter ==
    \/ onPreRender
    \/ onPreRenderThrows
    \/ renderScene
    \/ onPostRender
    \/ moved
    \/ resize
    \/ prepareTexture

SpecJitter == InitJitter /\ [][NextJitter]_vars

\* a camera with a render target, and a host that renders, steps and resets:
\* no resize, no teardown, no failed allocation
InitCycle ==
    /\ Constructed
    /\ renderTarget = NewRenderTarget
    /\ pmat = SymmetricProjection
    /\ before = pmat

NextCycle ==
    \/ onPreRender
    \/ onPreRenderThrows
    \/ renderScene
    \/ onPostRender
    \/ moved
    \/ prepareTexture

SpecCycle == InitCycle /\ [][NextCycle]_vars

\* a camera with a render target on a device with either blend state, and the
\* host of SpecCycle
InitBlend ==
    /\ Fresh
    /\ samples = SamplesFor(numSamples, SomeDraws(numSamples))
    /\ blend \in SceneBlends
    /\ renderTarget = NewRenderTarget
    /\ pmat = SymmetricProjection
    /\ before = pmat

SpecBlend == InitBlend /\ [][NextCycle]_vars

\* every run of Math.random() the constructor can see, on a square device of
\* the smallest size and a camera with a render target
InitSamples ==
    /\ Fresh
    /\ width = 1
    /\ height = 1
    /\ \E rnd \in [1..(numSamples * numSamples) -> Rands \X Rands] :
          samples = SamplesFor(numSamples, rnd)
    /\ blend = OpaqueBlend
    /\ renderTarget = NewRenderTarget
    /\ pmat = SymmetricProjection
    /\ before = pmat

NextSamples ==
    \/ onPreRender
    \/ onPreRenderThrows
    \/ renderScene
    \/ onPostRender
    \/ moved
    \/ prepareTexture
    \/ destroy

SpecSamples == InitSamples /\ [][NextSamples]_vars

\* ------------------------------------------------- reading the state
\* what the accumulation / output texture holds now
AccumContent == ContentOf(Fields, accumTexture)
FirstContent == ContentOf(Fields, firstTexture)

AllAllocated == /\ firstTexture # NULL /\ firstRenderTarget # NULL
                /\ accumTexture # NULL /\ accumRenderTarget # NULL
NoneAllocated == /\ firstTexture = NULL /\ firstRenderTarget = NULL
                 /\ accumTexture = NULL /\ accumRenderTarget = NULL

\* the share of a texture's earlier content that survives the layers after
\* layer j, as KeepNum / KeepDen: each later layer of weight 1/den keeps
\* (den - 1)/den of what was there
RECURSIVE KeepNum(_, _)
KeepNum(c, j) == IF j >= Len(c) THEN 1 ELSE (c[j + 1].den - 1) * KeepNum(c, j + 1)
RECURSIVE KeepDen(_, _)
KeepDen(c, j) == IF j >= Len(c) THEN 1 ELSE c[j + 1].den * KeepDen(c, j + 1)

\* layer j of content c makes up exactly p/q of it
HasWeight(c, j, p, q) == KeepNum(c, j) * q = p * c[j].den * KeepDen(c, j)

\* nothing of what the texture held before layer 1 is left
NothingOlder(c) == Len(c) >= 1 /\ KeepNum(c, 0) = 0

\* c is the mean of exactly k gamma-encoded scene samples
IsRunningMean(c, k) ==
    /\ k >= 1
    /\ Len(c) = k
    /\ NothingOlder(c)
    /\ \A j \in 1..k : /\ c[j].kind = "scene"
                       /\ c[j].pw = gamma
                       /\ HasWeight(c, j, 1, k)

\* the draws of the last prepareTexture into the output target; whether the
\* last operation was a prepareTexture that returned
FirstDraws == {i \in 1..Len(draws) : draws[i].to = "first"}
Stepped == last.op = "prepareTexture" /\ last.ret # "throws"

\* the draws of the PRIMED path: the grab pass, gamma-encoded, to the
\* accumulation target and with power 1 to the output target, then the composite
IsPrimedPath(d) ==
    /\ Len(d) = 3
    /\ d[1].to = "accum" /\ d[1].from = "camera" /\ d[1].power = gamma /\ d[1].alpha = NoAlpha
    /\ d[2].to = "first" /\ d[2].from = "camera" /\ d[2].power = onePower /\ d[2].alpha = NoAlpha
    /\ d[3].to = "screen" /\ d[3].from = "first"

\* ------------------------------------------------------------ claims

\* C1: once onPreRender and the matching onPostRender have both run, matrix
\* entries 8 and 9 hold the values they held just before onPreRender, whatever
\* the matrix and the sample offset were.
C1_JitterRestored ==
    phase = "idle" => (pmat.d8 = before.d8 /\ pmat.d9 = before.d9)

\* C2: whenever the four resources are allocated and 0 < sampleId <= N*N, the
\* accumulation texture holds the mean of exactly sampleId gamma-encoded samples
\* written since it was last primed (so no blend ever reaches an unprimed one).
C2_AccumulationIsRunningMean ==
    (AllAllocated /\ sampleId > 0) => IsRunningMean(AccumContent, sampleId)

\* C3: a prepareTexture that finds the device size changed reallocates all four
\* resources at the new size and processes sample 0 on the PRIMED path:
\* sampleId is 1 when it returns, whatever it was before.
C3_ResizeResets ==
    [][(prepareTexture /\ Stale(Fields)) =>
          /\ AllAllocated'
          /\ {firstTexture', firstRenderTarget', accumTexture', accumRenderTarget'}
                 \cap DOMAIN res = {}
          /\ res'[accumTexture'].width = width /\ res'[accumTexture'].height = height
          /\ res'[firstTexture'].width = width /\ res'[firstTexture'].height = height
          /\ renderTarget.exists => IsPrimedPath(draws')
          /\ sampleId' = 1]_vars

\* C4: a prepareTexture that raises sampleId from i to i + 1 performed the
\* writes of sample i (i = 0: accumulation and output; i >= 1: the blend, and
\* for the last sample the resolve), and one that wrote nothing into the
\* accumulation texture leaves sampleId unchanged.
C4_CountedOnlyIfWritten ==
    [][prepareTexture =>
          LET written(to) == \E i \in 1..Len(draws') :
                                 draws'[i].to = to /\ draws'[i].target # NULL
          IN  /\ sampleId' = sampleId + 1 =>
                    /\ written("accum")
                    /\ (sampleId = 0 \/ sampleId = sampleCnt - 1) => written("first")
              /\ ~written("accum") => sampleId' = sampleId]_vars

\* C5: once sampleId = N*N, a further prepareTexture (no moved in between)
\* draws into neither texture, leaves the output texture's content and sampleId
\* as they were, and returns false.
C5_ConvergedStepIsIdle ==
    [][(prepareTexture /\ sampleId = sampleCnt) =>
          /\ \A i \in 1..Len(draws') : draws'[i].to = "screen"
          /\ ContentOf(Fields', firstTexture') = FirstContent
          /\ sampleId' = sampleId
          /\ last'.ret = "false"]_vars

\* the two textures right after a PRIMED-path step that read the source src
PrimedAccum(src) == <<SceneLayer(src, gamma, 1)>>
PrimedFirst(src) == <<SceneLayer(src, onePower, 1)>>

Referenced == {firstTexture, firstRenderTarget, accumTexture, accumRenderTarget} \ {NULL}

\* draw d uses nothing that was destroyed, reading the allocation table r
UsesLive(d, r) ==
    /\ d.target # NULL => /\ r[d.target].destroyed = 0
                          /\ r[d.target].colorBuffer # NULL
                          /\ r[r[d.target].colorBuffer].destroyed = 0
    /\ d.source # NULL => r[d.source].destroyed = 0

\* C7: destroy, from any state (a partly allocated one too), destroys each
\* referenced resource once and leaves the four fields null; with nothing
\* referenced it changes nothing; and no prepareTexture draws to or reads from a
\* destroyed resource.
C7_TeardownReleasesAll ==
    [][/\ destroy =>
             /\ NoneAllocated'
             /\ DOMAIN res' = DOMAIN res
             /\ \A id \in DOMAIN res :
                   res'[id].destroyed =
                       res[id].destroyed + (IF id \in Referenced THEN 1 ELSE 0)
             /\ \A id \in Referenced : res'[id].destroyed = 1
             /\ NoneAllocated => res' = res
       /\ prepareTexture =>
             \A i \in 1..Len(draws') : UsesLive(draws'[i], res')]_vars

\* C7 witness: destroy has just run on a partly allocated instance (three of
\* the four resources existed), and all three are destroyed once
C7_Witness ==
    /\ last.op = "destroy"
    /\ NoneAllocated
    /\ Len(res) = 3
    /\ \A id \in DOMAIN res : res[id].destroyed = 1

\* C8: a prepareTexture whose create() fails ends in an error with sampleId
\* unchanged, and no prepareTexture draws while one of the four fields is null.
C8_AllocationFailureSurfaces ==
    last.op = "prepareTexture" =>
        /\ last.ret = "throws" => (sampleId = last.sampleId /\ draws = <<>>)
        /\ draws # <<>> => AllAllocated

\* C9: with a camera render target and no resize, teardown or failed
\* allocation, the k-th sample since the last priming enters the accumulation
\* texture with weight 1/k and what was there keeps (k-1)/k: sample 1 replaces
\* the content, and the step that begins with sampleId = i >= 1 blends with
\* constant alpha 1/(i+1).
C9_BlendWeights ==
    /\ (accumTexture # NULL /\ sampleId >= 1) =>
          LET c == AccumContent
              k == sampleId
          IN  /\ Len(c) = k
              /\ \A j \in 1..k : c[j].den = j
              /\ HasWeight(c, k, 1, k)
              /\ KeepNum(c, k - 1) * k = (k - 1) * KeepDen(c, k - 1)
    /\ (Stepped /\ last.sampleId < sampleCnt) =>
          /\ draws[1].to = "accum"
          /\ draws[1].alpha = IF last.sampleId = 0 THEN NoAlpha ELSE last.sampleId + 1

\* C9 witness: a whole cycle of four samples has been accumulated
C9_Witness ==
    /\ numSamples = 2 /\ sampleId = sampleCnt /\ Stepped /\ last.sampleId = 3
    /\ Len(AccumContent) = 4
    /\ HasWeight(AccumContent, 4, 1, 4)

\* pow(pow(x, p), q) = x: the exponents are inverse
Inverse(p, q) == p[1] * q[1] = p[2] * q[2]

\* content f is one decode pass over a mean of samples that all encode the
\* scene colour col, with the inverse exponent: it shows col
ResolvesTo(f, col) ==
    /\ Len(f) = 1
    /\ f[1].kind = "texture" /\ f[1].den = 1
    /\ NothingOlder(f[1].of)
    /\ \A j \in 1..Len(f[1].of) : /\ f[1].of[j].kind = "scene"
                                  /\ f[1].of[j].colour = col
                                  /\ Inverse(f[1].of[j].pw, f[1].pw)

\* C10: with N = 2, the fourth of four successive steps on a scene of one
\* colour col writes the resolve and returns false, and the output texture then
\* holds the decoded (power 1/2.2) mean of the four encoded samples, which is
\* col; the three steps before return true and do not resolve.
C10_ConstantColourResolves ==
    (numSamples = 2 /\ Stepped) =>
        /\ (last.sampleId = 3 /\ \E col \in Colours \cup {0} :
                                    \A j \in 1..Len(AccumContent) :
                                        AccumContent[j].colour = col) =>
              /\ last.ret = "false"
              /\ IsRunningMean(AccumContent, 4)
              /\ FirstContent = <<TextureLayer(AccumContent, invGamma, 1)>>
              /\ ResolvesTo(FirstContent, AccumContent[1].colour)
              /\ \E i \in FirstDraws : /\ draws[i].from = "accum"
                                       /\ draws[i].power = invGamma
                                       /\ draws[i].alpha = NoAlpha
        /\ last.sampleId < 3 =>
              /\ last.ret = "true"
              /\ \A i \in FirstDraws : draws[i].power # invGamma

\* C10 witness: the fourth step has just resolved four samples of colour 1
C10_Witness ==
    /\ numSamples = 2 /\ Stepped /\ last.sampleId = 3
    /\ \A j \in 1..Len(AccumContent) : AccumContent[j].colour = 1
    /\ ResolvesTo(FirstContent, 1)

\* draw d is one of the two PRIMED-path writes: the camera's colour buffer,
\* gamma-encoded into the accumulation target or with power 1 into the output
\* target, with no constant-alpha blend
IsPrimeWrite(d) ==
    /\ d.from = "camera"
    /\ d.alpha = NoAlpha
    /\ d.factors.src # "CONSTANT_ALPHA"
    /\ \/ d.to = "accum" /\ d.power = gamma
       \/ d.to = "first" /\ d.power = onePower

CellOf(v) == <<(v.x + numSamples * RandRes) \div (2 * RandRes),
               (v.y + numSamples * RandRes) \div (2 * RandRes)>>
Cells == (0..(numSamples - 1)) \X (0..(numSamples - 1))

\* coordinate 1.0, in the samples' units
One == numSamples * RandRes

\* the sample sequence is well formed: N * N offsets, one in each grid cell,
\* every coordinate in [-1, 1], in order of non-decreasing distance
WellFormedSamples ==
    /\ Len(samples) = numSamples * numSamples
    /\ {CellOf(samples[i]) : i \in 1..Len(samples)} = Cells
    /\ \A i \in 1..Len(samples) :
          /\ -One <= samples[i].x /\ samples[i].x <= One
          /\ -One <= samples[i].y /\ samples[i].y <= One
    /\ \A i \in 1..Len(samples) : \A j \in i..Len(samples) :
          Length2(samples[i]) <= Length2(samples[j])

\* C12: for every grid size and every run of Math.random(), the constructor
\* leaves N * N samples, one per grid cell, every coordinate in [-1, 1], sorted
\* by non-decreasing distance from the origin, and no operation changes the
\* sequence afterwards.
C12_SamplesWellFormedAndFixed ==
    [][WellFormedSamples /\ samples' = samples /\ WellFormedSamples']_vars

\* C12 witness: a 2 x 2 grid whose sort moved a sample (the sequence is not in
\* grid order) is still in place after a whole cycle of four steps
C12_Witness ==
    /\ numSamples = 2 /\ sampleId = sampleCnt /\ Stepped
    /\ WellFormedSamples
    /\ \E i \in 1..Len(samples) :
          CellOf(samples[i]) # <<(i - 1) \div numSamples, (i - 1) % numSamples>>
    /\ \E i \in 1..(Len(samples) - 1) : Length2(samples[i]) < Length2(samples[i + 1])

\* the bias the hook chooses for sample sid
BiasFor(sid) == IF sid = 0 THEN 0 ELSE negBias

\* C13: a prepareTexture that consumes a scene rendered just before it, with
\* at most a moved in between, finds it rendered with bias 0 if it takes the
\* priming branch (sampleId = 0) and with bias -5 if it blends (sampleId >= 1);
\* and onPreRender sets bias 0 exactly when sampleId = 0.
C13_BiasMatchesConsumer ==
    [][/\ (/\ prepareTexture
           /\ Accumulates
           /\ \/ last.op = "rendered"
              \/ last.op = "moved" /\ last.after = "rendered") =>
              renderTarget.colorBuffer.bias = BiasFor(sampleId)
       /\ onPreRender => bias' = BiasFor(sampleId)]_vars

\* texture id of the table r has the device's current size
DeviceSized(r, id) == r[id].width = width /\ r[id].height = height

\* C14: when a prepareTexture returns, the accumulation and the output texture
\* both have the device's current width and height, and so has every texture
\* one of its draws wrote into or read from; a prepareTexture that finds the
\* accumulation texture at another size destroys every resource it held and
\* allocates four new ones before it draws.
C14_TexturesMatchDevice ==
    [][prepareTexture =>
          /\ firstTexture' # NULL /\ accumTexture' # NULL
          /\ DeviceSized(res', firstTexture') /\ DeviceSized(res', accumTexture')
          /\ \A i \in 1..Len(draws') :
                 /\ draws'[i].target # NULL =>
                        DeviceSized(res', res'[draws'[i].target].colorBuffer)
                 /\ draws'[i].source # NULL => DeviceSized(res', draws'[i].source)
          /\ Stale(Fields) =>
                 /\ \A id \in Referenced : res'[id].destroyed = 1
                 /\ AllAllocated'
                 /\ {firstTexture', firstRenderTarget', accumTexture',
                     accumRenderTarget'} \cap DOMAIN res = {}]_vars

\* C14 witness: a prepareTexture has just found the textures at another size
\* than the (non-square) device, reallocated, and drawn into the new ones
C14_Witness ==
    /\ Stepped /\ last.stale
    /\ width # height
    /\ AllAllocated
    /\ DeviceSized(res, firstTexture) /\ DeviceSized(res, accumTexture)
    /\ \E i \in 1..Len(draws) : draws[i].to = "accum" /\ draws[i].target = accumRenderTarget
    /\ \E id \in DOMAIN res : res[id].destroyed = 1

\* C15: sampleId stays within 0..N*N; a prepareTexture raises it by one while
\* it is below N*N and leaves it at N*N otherwise; only moved lowers it; and
\* prepareTexture returns true exactly when sampleId after the call is below
\* N*N, so a call that begins at sampleId = j returns false exactly when
\* j >= N*N - 1: from sampleId = k the first false comes on call N*N - k (on the
\* first call when k = N*N).
C15_SampleIdRangeAndReturn ==
    [][/\ sampleId \in 0..sampleCnt /\ sampleId' \in 0..sampleCnt
       /\ prepareTexture =>
             /\ sampleId' = IF sampleId < sampleCnt THEN sampleId + 1 ELSE sampleCnt
             /\ last'.ret = "true" <=> sampleId' < sampleCnt
             /\ last'.ret = "false" <=> sampleId >= sampleCnt - 1
       /\ sampleId' < sampleId => (moved /\ sampleId' = 0)
       /\ (sampleId' # sampleId /\ ~moved) => prepareTexture]_vars

\* C15 witness: with N = 2 and a render target, the call that began at
\* sampleId = 3 has returned false with sampleId = 4, the call before it
\* having returned
C15_Witness ==
    /\ numSamples = 2 /\ renderTarget.exists
    /\ Stepped /\ last.sampleId = 3 /\ last.after = "prepareTexture"
    /\ last.ret = "false" /\ sampleId = 4

\* C16: a prepareTexture draws into the output target only as the identity
\* copy of the scene when it processes sample 0, or as the 1/2.2 decode of the
\* accumulation texture when it processes the last sample N*N - 1 of N*N > 1
\* (so the decode runs at most once between two moved); a prepareTexture that
\* processes a sample 1..N*N-2 leaves the output texture's content unchanged.
C16_OutputWrites ==
    [][prepareTexture =>
          /\ \A i \in 1..Len(draws') :
                 draws'[i].to = "first" =>
                    \/ /\ sampleId = 0
                       /\ draws'[i].from = "camera" /\ draws'[i].power = onePower
                    \/ /\ sampleId = sampleCnt - 1 /\ sampleCnt > 1
                       /\ draws'[i].from = "accum" /\ draws'[i].power = invGamma
          /\ (sampleId >= 1 /\ sampleId <= sampleCnt - 2) =>
                 ContentOf(Fields', firstTexture') = FirstContent]_vars

\* C17: whenever the camera's pre-render hook runs, sampleId < N*N, so
\* samples[sampleId] exists: the hook never fails on an undefined sample, also in
\* a scene render after convergence and before any moved.
C17_HookReadsSample ==
    [][(onPreRender \/ onPreRenderThrows) => sampleId < sampleCnt]_vars

\* C18: after every prepareTexture that returned (each ends with the composite
\* of the output texture to the display), the output texture has been drawn
\* into at least once since it was allocated.
C18_CompositeFromWritten ==
    Stepped => (firstTexture # NULL /\ FirstContent # <<>>)

\* resource id is in one of the states a resource may be in between two
\* operations: referenced and alive, or unreferenced and destroyed once
Accounted(id) ==
    \/ id \in Referenced /\ res[id].destroyed = 0
    \/ id \notin Referenced /\ res[id].destroyed = 1

\* C19: between operations, every texture and render target ever allocated is
\* either referenced by the instance and alive, or was destroyed exactly once:
\* none is destroyed twice and none is dropped undestroyed, also after a
\* create() that failed part-way and a later create().
C19_NoLeakNoDoubleDestroy ==
    \A id \in DOMAIN res : Accounted(id)

\* C20: every prepareTexture leaves the device's four blend factors as it
\* found them; the constant-alpha factors are in effect for no draw but the
\* accumulation draw of a blend step (sampleId >= 1), and the resolve and the
\* composite are drawn under the factors found at the call, with no
\* constant-alpha blending.
C20_BlendFactorsRestored ==
    [][prepareTexture =>
          /\ blend' = blend
          /\ \A i \in 1..Len(draws') :
                 /\ draws'[i].factors = ConstantAlphaBlend =>
                        (i = 1 /\ draws'[i].to = "accum" /\ sampleId >= 1)
                 /\ (draws'[i].to = "screen" \/ draws'[i].from = "accum") =>
                        (draws'[i].factors = blend /\ draws'[i].alpha = NoAlpha)]_vars

\* C20 witness: on a device left with alpha-blend factors, the step on the
\* last of four samples has blended with constant alpha, resolved and
\* composited, and the device has the alpha-blend factors again
C20_Witness ==
    /\ numSamples = 2 /\ Stepped /\ last.sampleId = 3
    /\ blend = AlphaBlend
    /\ Len(draws) = 3
    /\ draws[1].factors = ConstantAlphaBlend /\ draws[1].alpha = 4
    /\ draws[2].from = "accum" /\ draws[2].factors = AlphaBlend
    /\ draws[3].to = "screen" /\ draws[3].factors = AlphaBlend

=============================================================================
